---- MODULE Spec2Model ----
(***************************************************************************)
(* String analyser service (hng): the analyser functions of hng/utils.py,  *)
(* the analyser table of hng/model/analyser.py and the request handlers of *)
(* hng/routes/route.py.  Every request runs as its own task on one event   *)
(* loop; a handler is cut into steps at its awaits (the database round     *)
(* trips and the call of the NLP delegate).                                *)
(***************************************************************************)
EXTENDS Integers, Sequences, FiniteSets, TLC

\* ------------------------------------------------------------------ bounds
\* number of requests that can be in flight together
NumProcs == 2
\* number of distinct clock readings datetime.now(UTC) can give
MaxTime == 1
\* largest integer a client passes as min_length / max_length / word_count
MaxInt == 2
\* longest string handed to the analyser on its own
MaxLen == 3
\* largest number of path segments after /strings in a request
MaxDepth == 2

Procs == 1..NumProcs
Times == 1..MaxTime

\* ------------------------------------------------------------- characters
\* A string is a sequence of one-character strings.
Whitespace == {" "}
WordChars == {"a", "b", "A"}
Chars == WordChars \cup Whitespace \cup {","}

JsonStr(s) == [t |-> "str", s |-> s, n |-> 0]
JsonInt(n) == [t |-> "int", s |-> <<>>, n |-> n]

\* payloads of create requests racing with each other
RacePayloads ==
    {JsonStr(<<>>), JsonStr(<<"a">>), JsonStr(<<"A">>), JsonStr(<<" ", "a">>),
     JsonStr(<<"a", "b">>)}
\* path segments of single-string lookups
PathSegments == {<<"a">>, <<"A">>, <<" ", "a">>, <<"a", "b">>}

\* every string of at most MaxLen characters
Sentences == UNION {[1..n -> Chars] : n \in 0..MaxLen}

\* payloads of the create requests of one client
QueryPayloads ==
    RacePayloads \cup {JsonStr(<<" ">>), JsonStr(<<"a", " ", "a">>), JsonInt(0), JsonInt(5)}

\* an optional query parameter: {} is None, {x} is the value x
Optional(S) == {{}} \cup {{x} : x \in S}

\* the query parameters of list requests
ListQueries ==
    [is_palindrome : Optional(BOOLEAN),
     min_length : Optional(0..MaxInt),
     max_length : Optional(0..MaxInt),
     word_count : Optional(0..MaxInt),
     contains_character : Optional({<<>>, <<"a">>, <<"A">>, <<" ">>, <<"b">>})]

\* what the NLP delegate can answer: no answer at all, or a status and a body
NotJson == {"", "oops"}
FalsyJson == {"null", "{}", "[]", "0"}
TruthyJson == {"{\"min_length\": 1}", "[1]"}
UpstreamOutcomes ==
    {[kind |-> "RequestError"]}
    \cup [kind : {"response"}, status_code : {200, 404, 500},
          text : NotJson \cup FalsyJson \cup TruthyJson]

\* ------------------------------------------------------ str methods (Python)
lower_char(c) == IF c = "A" THEN "a" ELSE c

lower(s) == [i \in 1..Len(s) |-> lower_char(s[i])]

RECURSIVE lstrip(_)
lstrip(s) == IF s # <<>> /\ Head(s) \in Whitespace THEN lstrip(Tail(s)) ELSE s

RECURSIVE rstrip(_)
rstrip(s) ==
    IF s # <<>> /\ s[Len(s)] \in Whitespace THEN rstrip(SubSeq(s, 1, Len(s) - 1)) ELSE s

strip(s) == rstrip(lstrip(s))

reversed(s) == [i \in 1..Len(s) |-> s[Len(s) + 1 - i]]

\* bool(x) of a request body value
truthy(v) == IF v.t = "str" THEN v.s # <<>> ELSE v.n # 0

\* --------------------------------------------------------------- hng/utils.py
get_word_count(sentence) ==
    LET s == lower(sentence)
    IN  Cardinality({i \in 1..Len(s) :
            s[i] \in WordChars /\ (i = 1 \/ s[i - 1] \notin WordChars)})

get_is_palindrome_cased(sentence) == sentence = reversed(sentence)

get_is_palindrome(sentence) ==
    LET normalized == lower(sentence) IN normalized = reversed(normalized)

get_unique_characters(sentence) ==
    LET s == lower(sentence) IN Cardinality({s[i] : i \in 1..Len(s)})

get_character_frequency_map_all(sentence) ==
    LET s == lower(sentence)
    IN  [c \in {s[i] : i \in 1..Len(s)} |-> Cardinality({i \in 1..Len(s) : s[i] = c})]

get_character_frequency_map(sentence) ==
    LET s == lower(sentence)
        keys == {s[i] : i \in 1..Len(s)} \ Whitespace
    IN  [c \in keys |-> Cardinality({i \in 1..Len(s) : s[i] = c})]

\* hashlib.sha256(bytes).hexdigest(): a collision-free code of the byte string
char_code(c) ==
    CASE c = "a" -> 1 [] c = "b" -> 2 [] c = "A" -> 3 [] c = " " -> 4 [] OTHER -> 5

RECURSIVE hexdigest(_)
hexdigest(s) ==
    IF s = <<>> THEN 0
    ELSE char_code(Head(s)) + (Cardinality(Chars) + 1) * hexdigest(Tail(s))

get_sha256(sentence) == hexdigest(lower(sentence))

create_properties(sentence) ==
    [length |-> Len(sentence),
     is_palindrome |-> get_is_palindrome(sentence),
     unique_characters |-> get_unique_characters(sentence),
     word_count |-> get_word_count(sentence),
     sha256_hash |-> get_sha256(sentence),
     character_frequency_map |-> get_character_frequency_map(sentence)]

\* ------------------------------------------------------------- hng/schema
PropertiesModel(d) ==
    [length |-> d.length,
     is_palindrome |-> d.is_palindrome,
     unique_characters |-> d.unique_characters,
     word_count |-> d.word_count,
     sha256_hash |-> d.sha256_hash,
     character_frequency_map |-> d.character_frequency_map]

StringResponse(id, value, properties, created_at) ==
    [id |-> id, value |-> value, properties |-> properties, created_at |-> created_at]

\* ---------------------------------------------------- hng/model/analyser.py
\* the row create_string builds
Analyser_swapped(value, prop, created_at) ==
    [id |-> prop.sha256_hash,
     sha256_hash |-> prop.sha256_hash,
     value |-> value,
     length |-> prop.word_count,
     word_count |-> prop.length,
     is_palindrome |-> prop.is_palindrome,
     unique_characters |-> prop.unique_characters,
     character_frequency_map |-> prop.character_frequency_map,
     created_at |-> created_at]

Analyser_cased_id(value, prop, created_at) ==
    [id |-> hexdigest(value),
     sha256_hash |-> prop.sha256_hash,
     value |-> value,
     length |-> prop.length,
     word_count |-> prop.word_count,
     is_palindrome |-> prop.is_palindrome,
     unique_characters |-> prop.unique_characters,
     character_frequency_map |-> prop.character_frequency_map,
     created_at |-> created_at]

Analyser(value, prop, created_at) ==
    [id |-> prop.sha256_hash,
     sha256_hash |-> prop.sha256_hash,
     value |-> value,
     length |-> prop.length,
     word_count |-> prop.word_count,
     is_palindrome |-> prop.is_palindrome,
     unique_characters |-> prop.unique_characters,
     character_frequency_map |-> prop.character_frequency_map,
     created_at |-> created_at]

\* the primary key on id and the unique constraint uq_analyser_value
unconstrained(rows, row) == FALSE

IntegrityError(rows, row) == \E r \in rows : r.id = row.id \/ r.value = row.value

\* ------------------------------------------------------------------- state
VARIABLES
    db,        \* the rows of table analyser
    pc,        \* pc[p]: where request p stands in its handler
    req,       \* req[p]: the request p serves
    resp,      \* resp[p]: the response p has given
    added,     \* history: the rows p's request has committed
    queries,   \* history: the statements p's request has sent to the database
    calls,     \* history: the calls p's request has made to the NLP delegate
    upstream   \* what the NLP delegate answered p's request

vars == <<db, pc, req, resp, added, queries, calls, upstream>>

NoReq == [op |-> "none"]
NoResp == [status |-> 0, body |-> <<>>, raised |-> ""]
NoUpstream == [kind |-> "none"]

\* ----------------------------------------------------------------- responses
Response(status_code, body) == [status |-> status_code, body |-> body, raised |-> ""]

HTTPException(status_code, detail) ==
    [status |-> status_code, body |-> [detail |-> detail], raised |-> "HTTPException"]

\* an exception no handler catches: the framework answers 500
ServerError(exc) == [status |-> 500, body |-> "Internal Server Error", raised |-> exc]

DOES_NOT_EXIST == "value does not exist"
DUPLICATE_VALUE == "String already exists in the system"
NOT_STRING == "\"value\" must be a string"
EMPTY_STRING == "\"value\" field is required"

Init ==
    /\ db = {}
    /\ pc = [p \in Procs |-> "idle"]
    /\ req = [p \in Procs |-> NoReq]
    /\ resp = [p \in Procs |-> NoResp]
    /\ added = [p \in Procs |-> {}]
    /\ queries = [p \in Procs |-> 0]
    /\ calls = [p \in Procs |-> 0]
    /\ upstream = [p \in Procs |-> NoUpstream]

\* the handler of p ends with response r
Finish(p, r) ==
    /\ pc' = [pc EXCEPT ![p] = "done"]
    /\ resp' = [resp EXCEPT ![p] = r]

\* -------------------------------------------------- POST /strings/ (create)
\* what create_string computes from a string body value
create_value(v) == strip(v.s)

create_prop(v) == create_properties(lower(create_value(v)))

\* request p arrives: validation, then session.get(Analyser, hash)
create_string(p, v) ==
    /\ pc[p] = "idle"
    /\ req' = [req EXCEPT ![p] = [op |-> "create", value |-> v]]
    /\ UNCHANGED <<db, added, calls, upstream>>
    /\ IF ~truthy(v)
       THEN /\ Finish(p, HTTPException(400, EMPTY_STRING))
            /\ UNCHANGED queries
       ELSE IF v.t # "str"
       THEN /\ Finish(p, HTTPException(422, NOT_STRING))
            /\ UNCHANGED queries
       ELSE /\ queries' = [queries EXCEPT ![p] = 1]
            /\ IF \E r \in db : r.id = create_prop(v).sha256_hash
               THEN Finish(p, HTTPException(409, DUPLICATE_VALUE))
               ELSE /\ pc' = [pc EXCEPT ![p] = "select"]
                    /\ UNCHANGED resp

\* select(Analyser).where(Analyser.value == req.value)
create_string_select(p) ==
    /\ pc[p] = "select"
    /\ queries' = [queries EXCEPT ![p] = @ + 1]
    /\ UNCHANGED <<db, req, added, calls, upstream>>
    /\ IF \E r \in db : r.value = req[p].value.s
       THEN Finish(p, HTTPException(409, DUPLICATE_VALUE))
       ELSE /\ pc' = [pc EXCEPT ![p] = "commit"]
            /\ UNCHANGED resp

\* session.add(db); await session.commit()
create_string_commit_replacing(p, now) ==
    /\ pc[p] = "commit"
    /\ queries' = [queries EXCEPT ![p] = @ + 1]
    /\ UNCHANGED <<req, calls, upstream>>
    /\ LET row == Analyser(create_value(req[p].value), create_prop(req[p].value), now)
       IN  IF IntegrityError(db, row)
           THEN /\ Finish(p, ServerError("IntegrityError"))
                /\ UNCHANGED <<db, added>>
           ELSE /\ db' = {row}
                /\ added' = [added EXCEPT ![p] = @ \cup {row}]
                /\ pc' = [pc EXCEPT ![p] = "refresh"]
                /\ UNCHANGED resp

create_string_commit(p, now) ==
    /\ pc[p] = "commit"
    /\ queries' = [queries EXCEPT ![p] = @ + 1]
    /\ UNCHANGED <<req, calls, upstream>>
    /\ LET row == Analyser(create_value(req[p].value), create_prop(req[p].value), now)
       IN  IF IntegrityError(db, row)
           THEN /\ Finish(p, ServerError("IntegrityError"))
                /\ UNCHANGED <<db, added>>
           ELSE /\ db' = db \cup {row}
                /\ added' = [added EXCEPT ![p] = @ \cup {row}]
                /\ pc' = [pc EXCEPT ![p] = "refresh"]
                /\ UNCHANGED resp

\* await session.refresh(db); return StringResponse(...)
create_string_refresh(p) ==
    /\ pc[p] = "refresh"
    /\ queries' = [queries EXCEPT ![p] = @ + 1]
    /\ UNCHANGED <<db, req, added, calls, upstream>>
    /\ LET prop == create_prop(req[p].value)
           row == CHOOSE r \in db : r.id = prop.sha256_hash /\ r \in added[p]
       IN  Finish(p, Response(201,
               StringResponse(row.id, row.value, PropertiesModel(prop), row.created_at)))

\* the database round trip of the refresh fails (connection lost after the commit)
create_string_refresh_fails(p) ==
    /\ pc[p] = "refresh"
    /\ queries' = [queries EXCEPT ![p] = @ + 1]
    /\ UNCHANGED <<db, req, added, calls, upstream>>
    /\ Finish(p, ServerError("OperationalError"))

\* ------------------------------------- GET /strings/{string_value} (lookup)
get_string_id_cased(string_value) == hexdigest(strip(string_value))

get_string_id(string_value) == get_sha256(lower(strip(string_value)))

get_string(p, string_value) ==
    /\ pc[p] = "idle"
    /\ req' = [req EXCEPT ![p] = [op |-> "get", string_value |-> string_value]]
    /\ queries' = [queries EXCEPT ![p] = 1]
    /\ UNCHANGED <<db, added, calls, upstream>>
    /\ LET found == {r \in db : r.id = get_string_id(string_value)}
       IN  IF found = {}
           THEN Finish(p, HTTPException(404, DOES_NOT_EXIST))
           ELSE LET result == CHOOSE r \in found : TRUE
                IN  Finish(p, Response(200,
                        StringResponse(result.id, result.value,
                                       PropertiesModel(result), result.created_at)))

\* ------------------------------------------------- GET /strings/ (filtering)
is_not_None(x) == x # {}

the(x) == CHOOSE v \in x : TRUE

\* bool(x) of an Optional[int] and of an Optional[str]
truthy_int(x) == x # {} /\ the(x) # 0

truthy_str(x) == x # {} /\ the(x) # <<>>

\* if max_length and min_length and max_length < min_length
bounds_rejected(q) ==
    /\ truthy_int(q.max_length)
    /\ truthy_int(q.min_length)
    /\ the(q.max_length) < the(q.min_length)

\* JSONB has_key: the text is a key of the frequency map
has_key(map, char) == Len(char) = 1 /\ char[1] \in DOMAIN map

\* the names of the conditions the handler appends
condition(q) ==
    {k \in {"is_palindrome", "min_length", "max_length", "word_count"} : is_not_None(q[k])}
    \cup {k \in {"contains_character"} : truthy_str(q[k])}

\* and_(*condition) on one row
row_matches_exclusive_max(r, q) ==
    /\ is_not_None(q.is_palindrome) => r.is_palindrome = the(q.is_palindrome)
    /\ is_not_None(q.min_length) => r.length >= the(q.min_length)
    /\ is_not_None(q.max_length) => r.length < the(q.max_length)
    /\ is_not_None(q.word_count) => r.word_count = the(q.word_count)
    /\ truthy_str(q.contains_character)
       => has_key(r.character_frequency_map, lower(strip(the(q.contains_character))))

row_matches_cased(r, q) ==
    /\ is_not_None(q.is_palindrome) => r.is_palindrome = the(q.is_palindrome)
    /\ is_not_None(q.min_length) => r.length >= the(q.min_length)
    /\ is_not_None(q.max_length) => r.length <= the(q.max_length)
    /\ is_not_None(q.word_count) => r.word_count = the(q.word_count)
    /\ truthy_str(q.contains_character)
       => has_key(r.character_frequency_map, strip(the(q.contains_character)))

row_matches(r, q) ==
    /\ is_not_None(q.is_palindrome) => r.is_palindrome = the(q.is_palindrome)
    /\ is_not_None(q.min_length) => r.length >= the(q.min_length)
    /\ is_not_None(q.max_length) => r.length <= the(q.max_length)
    /\ is_not_None(q.word_count) => r.word_count = the(q.word_count)
    /\ truthy_str(q.contains_character)
       => has_key(r.character_frequency_map, lower(strip(the(q.contains_character))))

\* the dict params
filters_applied(q) == [k \in condition(q) |-> the(q[k])]

ListResponse(data, count, params) ==
    [data |-> data, count |-> count, filters_applied |-> params]

\* lines 253-266: the rows found, as the response
list_result_unchecked(result, params) ==
    LET data == {StringResponse(r.id, r.value, PropertiesModel(r), r.created_at) :
                     r \in result}
    IN  Response(200, ListResponse(data, Cardinality(data), params))

list_result(result, params) ==
    IF result = {}
    THEN HTTPException(404, DOES_NOT_EXIST)
    ELSE LET data == {StringResponse(r.id, r.value, PropertiesModel(r), r.created_at) :
                          r \in result}
         IN  Response(200, ListResponse(data, Cardinality(data), params))

get_all_strings(p, q) ==
    /\ pc[p] = "idle"
    /\ req' = [req EXCEPT ![p] = [op |-> "list", params |-> q]]
    /\ UNCHANGED <<db, added, calls, upstream>>
    /\ IF bounds_rejected(q)
       THEN /\ Finish(p, HTTPException(422, "Max length must be greater than Min length"))
            /\ UNCHANGED queries
       ELSE IF condition(q) = {}
       THEN /\ Finish(p, HTTPException(404, DOES_NOT_EXIST))
            /\ UNCHANGED queries
       ELSE /\ queries' = [queries EXCEPT ![p] = 1]
            /\ Finish(p, list_result({r \in db : row_matches(r, q)}, filters_applied(q)))

\* ------------------------------------ GET /strings/filter-by-natural-language
\* response.json(): the decoded value, or JSONDecodeError
json_loads(text) ==
    CASE text = "null" -> [ok |-> TRUE, value |-> [t |-> "null", items |-> <<>>]]
      [] text = "{}" -> [ok |-> TRUE, value |-> [t |-> "dict", items |-> <<>>]]
      [] text = "[]" -> [ok |-> TRUE, value |-> [t |-> "list", items |-> <<>>]]
      [] text = "0" -> [ok |-> TRUE, value |-> [t |-> "int", items |-> <<0>>]]
      [] text = "[1]" -> [ok |-> TRUE, value |-> [t |-> "list", items |-> <<1>>]]
      [] text = "{\"min_length\": 1}"
           -> [ok |-> TRUE, value |-> [t |-> "dict", items |-> [min_length |-> 1]]]
      [] OTHER -> [ok |-> FALSE, value |-> [t |-> "JSONDecodeError", items |-> <<>>]]

\* bool(x) of a decoded JSON value
truthy_json(v) ==
    CASE v.t = "null" -> FALSE
      [] v.t = "int" -> v.items # <<0>>
      [] OTHER -> v.items # <<>>

\* response.raise_for_status() raises HTTPStatusError
is_error(status_code) == status_code \notin 200..299

\* lines 296-322, from the delegate's answer on
nlp_result_one_except(u) ==
    IF u.kind = "RequestError" \/ is_error(u.status_code)
    THEN HTTPException(502, "Failed to reach NLP API")
    ELSE LET parsed_filters == json_loads(u.text)
         IN  IF ~parsed_filters.ok
             THEN HTTPException(502, "Invalid JSON returned from NLP API")
             ELSE IF ~truthy_json(parsed_filters.value)
             THEN HTTPException(400, "Unable to parse natural language query")
             ELSE ServerError("TypeError")

nlp_result(u) ==
    IF u.kind = "RequestError"
    THEN HTTPException(502, "Failed to reach NLP API")
    ELSE IF is_error(u.status_code)
    THEN HTTPException(500, "NLP API returned error")
    ELSE LET parsed_filters == json_loads(u.text)
         IN  IF ~parsed_filters.ok
             THEN HTTPException(502, "Invalid JSON returned from NLP API")
             ELSE IF ~truthy_json(parsed_filters.value)
             THEN HTTPException(400, "Unable to parse natural language query")
             \* return await parsed_filters: the decoded value is not awaitable
             ELSE ServerError("TypeError")

\* await client.get(NLP_API_URL, params={"query": query}) is sent
filter_by_natural_language(p, query) ==
    /\ pc[p] = "idle"
    /\ req' = [req EXCEPT ![p] = [op |-> "nl", query |-> query]]
    /\ pc' = [pc EXCEPT ![p] = "nlp"]
    /\ calls' = [calls EXCEPT ![p] = 1]
    /\ UNCHANGED <<db, resp, added, queries, upstream>>

\* the delegate's answer (or the transport's failure) arrives
filter_by_natural_language_reply(p, u) ==
    /\ pc[p] = "nlp"
    /\ upstream' = [upstream EXCEPT ![p] = u]
    /\ Finish(p, nlp_result(u))
    /\ UNCHANGED <<db, req, added, queries, calls>>

\* the response has been sent: the task ends
Reply(p) ==
    /\ pc[p] = "done"
    /\ pc' = [pc EXCEPT ![p] = "idle"]
    /\ req' = [req EXCEPT ![p] = NoReq]
    /\ resp' = [resp EXCEPT ![p] = NoResp]
    /\ added' = [added EXCEPT ![p] = {}]
    /\ queries' = [queries EXCEPT ![p] = 0]
    /\ calls' = [calls EXCEPT ![p] = 0]
    /\ upstream' = [upstream EXCEPT ![p] = NoUpstream]
    /\ UNCHANGED db

\* ------------------------------------------------- the analyser on its own
\* create_properties(sentence), called with any string
call_create_properties(p, sentence) ==
    /\ pc[p] = "idle"
    /\ req' = [req EXCEPT ![p] = [op |-> "create_properties", sentence |-> sentence]]
    /\ Finish(p, [NoResp EXCEPT !.body = create_properties(sentence)])
    /\ UNCHANGED <<db, added, queries, calls, upstream>>

\* ------------------------------------------------------ the router's table
\* A path under the prefix /strings is the sequence of its segments:
\* <<>> is /strings/ and <<"a">> is /strings/a.
NL_SEGMENT == "filter-by-natural-language"
Methods == {"GET", "POST", "PUT", "DELETE"}
Segments == {"a", "A", "ab", " a", NL_SEGMENT}
UrlPaths == UNION {[1..n -> Segments] : n \in 0..MaxDepth}

\* the routes of string_router, in the order of their decorators
Routes ==
    << [methods |-> {"POST"}, path |-> <<>>, endpoint |-> "create_string"],
       [methods |-> {"GET"}, path |-> <<"{string_value}">>, endpoint |-> "get_string"],
       [methods |-> {"GET"}, path |-> <<>>, endpoint |-> "get_all_strings"],
       [methods |-> {"GET"}, path |-> <<NL_SEGMENT>>,
        endpoint |-> "filter_by_natural_language"] >>

\* a route's path against a request path: a parameter takes any one segment
path_matches(route_path, path) ==
    /\ Len(route_path) = Len(path)
    /\ \A i \in 1..Len(path) :
           route_path[i] = "{string_value}" \/ route_path[i] = path[i]

\* Route.matches: FULL, PARTIAL (the path alone matches) or NONE
matches(route, method, path) ==
    IF ~path_matches(route.path, path) THEN "NONE"
    ELSE IF method \in route.methods THEN "FULL" ELSE "PARTIAL"

\* the first route that matches in full takes the request; failing that a
\* partial match answers 405, and no match answers 404
dispatch(method, path) ==
    LET full == {i \in 1..Len(Routes) : matches(Routes[i], method, path) = "FULL"}
        partial == {i \in 1..Len(Routes) : matches(Routes[i], method, path) = "PARTIAL"}
        first == CHOOSE i \in full : \A j \in full : i <= j
    IN  IF full # {}
        THEN [status |-> 0, endpoint |-> Routes[first].endpoint,
              path_params |-> {path[i] : i \in {k \in 1..Len(path) :
                                  Routes[first].path[k] = "{string_value}"}}]
        ELSE [status |-> IF partial # {} THEN 405 ELSE 404,
              endpoint |-> "", path_params |-> {}]

\* a request arrives and the router hands it to an endpoint or answers itself
http_request(p, method, path) ==
    /\ pc[p] = "idle"
    /\ req' = [req EXCEPT ![p] = [op |-> "http", method |-> method, path |-> path]]
    /\ Finish(p, [NoResp EXCEPT !.status = dispatch(method, path).status,
                                !.body = dispatch(method, path)])
    /\ UNCHANGED <<db, added, queries, calls, upstream>>

\* ----------------------------------------------------------- specifications
\* concurrent creates and lookups
Next ==
    \/ \E p \in Procs, v \in RacePayloads : create_string(p, v)
    \/ \E p \in Procs : create_string_select(p)
    \/ \E p \in Procs, now \in Times : create_string_commit(p, now)
    \/ \E p \in Procs : create_string_refresh(p)
    \/ \E p \in Procs, s \in PathSegments : get_string(p, s)
    \/ \E p \in Procs : Reply(p)

Spec == Init /\ [][Next]_vars

\* the same, where a database round trip after the commit can fail
NextFault ==
    \/ Next
    \/ \E p \in Procs : create_string_refresh_fails(p)

SpecFault == Init /\ [][NextFault]_vars

\* one client sending its requests one after the other, over the whole API
OneClient == {p \in Procs : \A q \in Procs : p <= q}

NextQuery ==
    \/ \E p \in OneClient, v \in QueryPayloads : create_string(p, v)
    \/ \E p \in OneClient : create_string_select(p)
    \/ \E p \in OneClient, now \in Times : create_string_commit(p, now)
    \/ \E p \in OneClient : create_string_refresh(p)
    \/ \E p \in OneClient, s \in PathSegments : get_string(p, s)
    \/ \E p \in OneClient, q \in ListQueries : get_all_strings(p, q)
    \/ \E p \in OneClient, query \in {"palindromes"} :
           filter_by_natural_language(p, query)
    \/ \E p \in OneClient, u \in UpstreamOutcomes :
           filter_by_natural_language_reply(p, u)
    \/ \E p \in OneClient : Reply(p)

SpecQuery == Init /\ [][NextQuery]_vars

\* the analyser applied to every string
NextAnalyse ==
    \/ \E p \in OneClient, s \in Sentences : call_create_properties(p, s)
    \/ \E p \in OneClient : Reply(p)

SpecAnalyse == Init /\ [][NextAnalyse]_vars

\* requests of every method and path through the router
NextHttp ==
    \/ \E p \in OneClient, method \in Methods, path \in UrlPaths :
           http_request(p, method, path)
    \/ \E p \in OneClient : Reply(p)

SpecHttp == Init /\ [][NextHttp]_vars

\* ------------------------------------------------------------------ claims
IsDone(p, op) == pc[p] = "done" /\ req[p].op = op

\* the folded, trimmed form under which a value is identified
folded(s) == lower(strip(s))

\* C1: after any sequence and interleaving of create requests, no two stored
\* records share the same id and no two share the same value.
C1_UniqueIdAndValue ==
    \A r1, r2 \in db : r1 # r2 => r1.id # r2.id /\ r1.value # r2.value

\* two creates of one folded value raced past the existence checks
C1_Witness ==
    \E p, q \in Procs :
        /\ p # q /\ IsDone(p, "create") /\ IsDone(q, "create")
        /\ resp[p].status = 201
        /\ resp[q].raised = "IntegrityError"
        /\ req[p].value # req[q].value
        /\ Cardinality(db) = 1

\* C2: every create of a non-empty string ends either 409, a record of the
\* same folded value being stored and the repository untouched by it, or 201,
\* no other such record being stored and its own record persisted with
\* created_at populated.
C2_ConflictOrCreated ==
    \A p \in Procs :
        (IsDone(p, "create") /\ req[p].value.t = "str" /\ truthy(req[p].value))
        => LET same == {r \in db \ added[p] : folded(r.value) = folded(req[p].value.s)}
           IN  \/ /\ resp[p].status = 409
                  /\ same # {}
                  /\ added[p] = {}
               \/ /\ resp[p].status = 201
                  /\ same = {}
                  /\ Cardinality(added[p]) = 1
                  /\ added[p] \subseteq db
                  /\ resp[p].body.created_at \in Times

\* C3: when two creates of one value both pass the existence checks, exactly
\* one record is persisted and the constraint violation of the second writer
\* is answered 409.
C3_RaceAnswered409 ==
    \A p \in Procs :
        (IsDone(p, "create") /\ resp[p].raised = "IntegrityError")
        => /\ resp[p].status = 409
           /\ Cardinality({r \in db : r.id = create_prop(req[p].value).sha256_hash}) = 1

\* C4: a create is answered 201 exactly when it persisted one record, the one
\* it returns; a create that ends with an error, a failure after its commit
\* included, has left no record in the repository.
C4_AllOrNothing ==
    \A p \in Procs :
        IsDone(p, "create")
        => IF resp[p].status = 201
           THEN /\ Cardinality(added[p]) = 1
                /\ added[p] \subseteq db
                /\ \A r \in added[p] :
                       /\ resp[p].body.id = r.id
                       /\ resp[p].body.value = r.value
                       /\ resp[p].body.created_at = r.created_at
           ELSE added[p] = {}

\* C5: once create of s is answered 201 with properties P, a later lookup of s
\* is answered 200 with the same id, value and properties.
C5_RoundTrip ==
    [][\A p, q \in Procs :
          (/\ IsDone(p, "create") /\ resp[p].status = 201
           /\ pc[q] = "idle" /\ pc'[q] = "done" /\ req'[q].op = "get"
           /\ req'[q].string_value = req[p].value.s)
          => /\ resp'[q].status = 200
             /\ resp'[q].body.id = resp[p].body.id
             /\ resp'[q].body.value = resp[p].body.value
             /\ resp'[q].body.properties = resp[p].body.properties]_vars

\* a create answered 201 and a lookup of the submitted string answered after it
C5_Witness ==
    \E p, q \in Procs :
        /\ IsDone(p, "create") /\ resp[p].status = 201
        /\ IsDone(q, "get") /\ req[q].string_value = req[p].value.s
        /\ req[p].value.s # resp[p].body.value
        /\ resp[q].status = 200
        /\ resp[q].body.id = resp[p].body.id
        /\ resp[q].body.properties = resp[p].body.properties

\* C6: a lookup is answered 200 with the stored record exactly when a record
\* has the hash of the trimmed, lowercased path segment as its id, and 404
\* otherwise; every casing variant of a stored value retrieves that record;
\* the lookup leaves the repository as it was.
C6_LookupByFoldedHash ==
    [][\A q \in Procs :
          (pc[q] = "idle" /\ pc'[q] = "done" /\ req'[q].op = "get")
          => LET seg == req'[q].string_value
                 hit == {r \in db : r.id = hexdigest(folded(seg))}
             IN  /\ db' = db
                 /\ hit = {} => resp'[q].status = 404
                 /\ hit # {} => /\ resp'[q].status = 200
                                /\ \E r \in hit :
                                       resp'[q].body =
                                           StringResponse(r.id, r.value,
                                               PropertiesModel(r), r.created_at)
                 /\ \A r \in db :
                        lower(r.value) = folded(seg)
                        => /\ resp'[q].status = 200
                           /\ resp'[q].body.value = r.value]_vars

\* a lookup by another casing of the stored value found the record
C6_Witness ==
    \E q \in Procs :
        /\ IsDone(q, "get")
        /\ resp[q].status = 200
        /\ resp[q].body.value # strip(req[q].string_value)
        /\ resp[q].body.value \in {r.value : r \in db}

\* C7: a natural-language filter request whose delegate answers a success
\* status and a non-empty JSON body is answered 200 with the decoded payload,
\* the repository being neither queried nor modified.
C7_PayloadRelayed ==
    \A p \in Procs :
        (/\ IsDone(p, "nl")
         /\ upstream[p].kind = "response"
         /\ upstream[p].status_code \in 200..299
         /\ upstream[p].text \in TruthyJson)
        => /\ resp[p].status = 200
           /\ resp[p].body = json_loads(upstream[p].text).value
           /\ queries[p] = 0
           /\ added[p] = {}

\* C8: for a natural-language filter request a transport failure gives 502, a
\* non-success status of the delegate 500, a body that is not JSON 502 and an
\* empty or falsy decoded body 400; in each case the repository is not touched
\* and the delegate has been called exactly once.
C8_DelegateOutcomeMapping ==
    \A p \in Procs :
        IsDone(p, "nl")
        => LET u == upstream[p]
               failed == u.kind = "RequestError"
               success == u.kind = "response" /\ u.status_code \in 200..299
               untouched == queries[p] = 0 /\ added[p] = {} /\ calls[p] = 1
           IN  /\ failed => resp[p].status = 502 /\ untouched
               /\ (u.kind = "response" /\ ~success) => resp[p].status = 500 /\ untouched
               /\ (success /\ u.text \in NotJson) => resp[p].status = 502 /\ untouched
               /\ (success /\ u.text \in FalsyJson) => resp[p].status = 400 /\ untouched

\* the delegate answered an error status and the request ended 500 on one call
C8_Witness ==
    \E p \in Procs :
        /\ IsDone(p, "nl")
        /\ upstream[p].kind = "response"
        /\ upstream[p].status_code = 404
        /\ resp[p].status = 500
        /\ calls[p] = 1
        /\ db # {}

\* the filters of a list request that were supplied
supplied(q) == {k \in DOMAIN q : q[k] # {}}

\* C9: a list request never answers 200 with an empty result: with no filter
\* supplied it is answered 404, with filters that pass the bounds check and
\* match no stored record it is answered 404, and every 200 has count >= 1,
\* as many records in data and a non-empty filters_applied.
C9_NoEmptyList ==
    \A p \in Procs :
        IsDone(p, "list")
        => LET q == req[p].params
               matching == {r \in db : row_matches(r, q)}
           IN  /\ supplied(q) = {} => resp[p].status = 404
               /\ (matching = {} /\ resp[p].status # 422) => resp[p].status = 404
               /\ resp[p].status = 200
                  => /\ resp[p].body.count >= 1
                     /\ Cardinality(resp[p].body.data) = resp[p].body.count
                     /\ DOMAIN resp[p].body.filters_applied # {}

\* filters were supplied, rows are stored, none matches: answered 404
C9_Witness ==
    \E p \in Procs :
        /\ IsDone(p, "list")
        /\ supplied(req[p].params) # {}
        /\ ~bounds_rejected(req[p].params)
        /\ db # {}
        /\ {r \in db : row_matches(r, req[p].params)} = {}
        /\ resp[p].status = 404

\* C10: a list request with max_length < min_length is answered 422, whatever
\* the two integers (0 included), the other filters and the repository.
C10_InvertedBounds422 ==
    \A p \in Procs :
        (/\ IsDone(p, "list")
         /\ req[p].params.min_length # {}
         /\ req[p].params.max_length # {}
         /\ the(req[p].params.max_length) < the(req[p].params.min_length))
        => resp[p].status = 422

\* the stored record r as a list response shows it
shown(r) == StringResponse(r.id, r.value, PropertiesModel(r), r.created_at)

\* the filters of q with a value: a contains_character of no character is none
given(q) ==
    {k \in DOMAIN q : q[k] # {}} \ {k \in {"contains_character"} : q[k] = {<<>>}}

\* C11: a list request answered 200, its contains_character (if any) being one
\* character, returns as data exactly the stored records that satisfy every
\* supplied predicate (is_palindrome equal, min_length <= length <= max_length,
\* word_count equal, contains_character a key of the frequency map), count is
\* the number of records in data and filters_applied lists exactly the
\* supplied filters with their values.
C11_ExactlyTheMatches ==
    \A p \in Procs :
        (IsDone(p, "list") /\ resp[p].status = 200)
        => LET q == req[p].params
               sat(r) ==
                   /\ \A b \in q.is_palindrome : r.is_palindrome = b
                   /\ \A n \in q.min_length : n <= r.length
                   /\ \A n \in q.max_length : r.length <= n
                   /\ \A n \in q.word_count : r.word_count = n
                   /\ \A c \in q.contains_character \ {<<>>} :
                          \E i \in 1..Len(c) :
                              lower_char(c[i]) \in DOMAIN r.character_frequency_map
           IN  /\ resp[p].body.data = {shown(r) : r \in {x \in db : sat(x)}}
               /\ resp[p].body.count = Cardinality({x \in db : sat(x)})
               /\ DOMAIN resp[p].body.filters_applied = given(q)
               /\ \A k \in given(q) : resp[p].body.filters_applied[k] = the(q[k])

\* both length bounds supplied, a record on each bound returned, others left out
C11_Witness ==
    \E p \in Procs :
        /\ IsDone(p, "list") /\ resp[p].status = 200
        /\ req[p].params.min_length = {1}
        /\ req[p].params.max_length = {2}
        /\ resp[p].body.count = 2
        /\ Cardinality(db) > 2

\* C12: for a list request filtered by contains_character = c alone, the
\* records selected are exactly those whose character_frequency_map has the
\* key lower(c) (404 when there is none); so an upper-case c selects what its
\* lower-case form selects.
C12_ContainsCharacterFolded ==
    \A p \in Procs :
        (/\ IsDone(p, "list")
         /\ given(req[p].params) = {"contains_character"}
         /\ Len(the(req[p].params.contains_character)) = 1)
        => LET c == the(req[p].params.contains_character)[1]
               selected == {r \in db : lower_char(c) \in DOMAIN r.character_frequency_map}
           IN  IF selected = {}
               THEN resp[p].status = 404
               ELSE /\ resp[p].status = 200
                    /\ resp[p].body.data = {shown(r) : r \in selected}

\* an upper-case character selected the records holding its lower-case form
C12_Witness ==
    \E p \in Procs :
        /\ IsDone(p, "list")
        /\ req[p].params.contains_character = {<<"A">>}
        /\ resp[p].status = 200
        /\ resp[p].body.count >= 1
        /\ resp[p].body.count < Cardinality(db)

\* C13: a finished create whose value is not a string is answered 422, one
\* whose value is the empty string is answered 400, and in both cases the
\* request has stored nothing and has not reached the repository.
C13_NonString422Empty400 ==
    \A p \in Procs :
        IsDone(p, "create")
        => /\ req[p].value.t # "str"
              => resp[p].status = 422 /\ added[p] = {} /\ queries[p] = 0
           /\ req[p].value = JsonStr(<<>>)
              => resp[p].status = 400 /\ added[p] = {} /\ queries[p] = 0

\* C14: every stored record has id = sha256_hash = the digest of its lowercased
\* value; a created record is answered with the digest of the lowercased
\* submitted string; records whose values fold to the same string have the
\* same id.
C14_IdIsHashOfFoldedValue ==
    /\ \A r \in db : r.id = r.sha256_hash /\ r.id = hexdigest(lower(r.value))
    /\ \A r1, r2 \in db : lower(r1.value) = lower(r2.value) => r1.id = r2.id
    /\ \A p \in Procs :
           (IsDone(p, "create") /\ resp[p].status = 201)
           => resp[p].body.id = hexdigest(folded(req[p].value.s))

\* a stored value with an upper-case character, created from a body that folds
C14_Witness ==
    \E p \in Procs :
        /\ IsDone(p, "create") /\ resp[p].status = 201
        /\ \E r \in db : r.value # lower(r.value) /\ r.id = resp[p].body.id

\* C20: no stored record has an empty value; a finished create whose value is
\* a string that is empty once stripped is answered 400 and has stored
\* nothing; every stored value is a submitted string stripped, case kept.
C20_NoEmptyValueStored ==
    /\ \A r \in db : r.value # <<>>
    /\ \A p \in Procs :
           (IsDone(p, "create") /\ req[p].value.t = "str")
           => /\ strip(req[p].value.s) = <<>>
                 => resp[p].status = 400 /\ added[p] = {}
              /\ \A r \in added[p] : r.value = strip(req[p].value.s)

C16_FrequencyMapOfFolded ==
    \A p \in Procs :
        IsDone(p, "create_properties")
        => LET s == req[p].sentence
               map == resp[p].body.character_frequency_map
               occurrences(c) == {i \in 1..Len(s) : lower_char(s[i]) = c}
           IN  /\ \A c \in Chars : c \in DOMAIN map <=> (c # " " /\ occurrences(c) # {})
               /\ \A c \in DOMAIN map : map[c] = Cardinality(occurrences(c))
               /\ " " \notin DOMAIN create_prop(JsonStr(s)).character_frequency_map
               /\ s = <<>> => DOMAIN map = {}

\* both cases of one letter counted together, the space between them left out
C16_Witness ==
    \E p \in Procs :
        /\ IsDone(p, "create_properties")
        /\ req[p].sentence = <<"A", " ", "a">>
        /\ DOMAIN resp[p].body.character_frequency_map = {"a"}
        /\ resp[p].body.character_frequency_map["a"] = 2

\* the alphanumeric characters of s, in order
alphanumerics(s) == SelectSeq(s, LAMBDA c : c \in WordChars)

\* C18: is_palindrome ignores case, spaces and non-alphanumeric characters:
\* it is true exactly when the alphanumeric characters of the lowercased
\* string read the same from both ends.
C18_IgnoresNonAlphanumerics ==
    \A p \in Procs :
        IsDone(p, "create_properties")
        => LET a == alphanumerics(lower(req[p].sentence))
           IN  resp[p].body.is_palindrome <=> a = reversed(a)

C19_NaturalLanguageRouted ==
    \A p \in Procs :
        (/\ IsDone(p, "http")
         /\ req[p].method = "GET"
         /\ req[p].path = <<NL_SEGMENT>>)
        => /\ resp[p].body.endpoint = "filter_by_natural_language"
           /\ resp[p].body.endpoint # "get_string"

====
